---------------------------- MODULE Spec2Model ----------------------------
(***************************************************************************)
(* promise.hpp: the settlement state of a promise, the chaining protocol   *)
(* (then / fail, flattening) and the combinators, as a state machine.      *)
(*                                                                         *)
(* A promise is an index into `states`; every handle to it is that index.  *)
(* A thread runs one public call at a time.  Its call stack is `agenda`:   *)
(* the sequence of steps it still has to perform, innermost first.  A      *)
(* step that calls a function replaces itself by the callee's steps.       *)
(* std::mutex is the field mutex_ (0 = free, otherwise the owning thread); *)
(* a step that locks is enabled only while the mutex is free.  Releasing   *)
(* a mutex and returning are part of the step that precedes them.          *)
(*                                                                         *)
(* The library never inspects a payload or an exception, so every public   *)
(* resolve / reject call settles with a payload / error of its own (the    *)
(* number of the call), and every continuation raises a condition of its   *)
(* own.  A payload is a sequence of numbers: <<>> is the void payload,     *)
(* <<v>> the int v, <<v1, .., vn>> a std::vector<int>.                     *)
(***************************************************************************)
EXTENDS Integers, Sequences, FiniteSets, TLC

VARIABLES
    states,     \* Seq of promise<T>::state, one per constructed promise
    origin,     \* per promise: the call that constructed it (history)
    ran,        \* per promise n: the invocations of the handler pair whose
                \* next is n (history)
    agenda,     \* per thread: the steps left on its call stack
    cur,        \* per thread: the public call in progress (0: none)
    calls,      \* the public calls made, in order of call (history)
    contexts    \* per promise: the context_t of the make_all_promise call
                \* that constructed it

vars == <<states, origin, ran, agenda, cur, calls, contexts>>

(* ------------------------------ bounds -------------------------------- *)

\* the number of public calls of a run
MaxOps == 3

\* the threads
Threads == {1, 2}

(* ------------------------- values, exceptions ------------------------- *)

Unit == <<>>
Scalar(v) == <<v>>

\* the user's plain-value continuation: f(v) = v + 10
UserF(v) == <<v[1] + 10>>

\* std::exception_ptr: Null is nullptr; "error" is the error a producer
\* rejects with (id: the call), "x" the condition the on_resolve of the
\* pair with next id raises, "x2" the condition its on_reject raises
Exc(k, id) == [k |-> k, id |-> id]
Null == Exc("null", 0)

(* ---------------------------- descriptors ----------------------------- *)

\* a callable: k names the lambda, a and b are its captures
Fn(k, a, b) == [k |-> k, a |-> a, b |-> b]
NoFn == Fn("none", 0, 0)

\* struct handler: resolve_ is the closure resolve_h (captures n, f, j),
\* reject_ the closure reject_h (captures n, f)
Handler(n, f, r) == [n |-> n, resolve |-> f, reject |-> r]
NoH == Handler(0, NoFn, NoFn)

\* one step of a call stack
Item(op, p, v, e, h, top) ==
    [op |-> op, p |-> p, v |-> v, e |-> e, h |-> h, top |-> top]

DoResolve(p, v, top) == Item("resolve", p, v, Null, NoH, top)
DoReject(p, e, top) == Item("reject", p, Unit, e, NoH, top)
DoAttach(p, h) == Item("attach", p, Unit, Null, h, FALSE)
DoResolveH(h, v) == Item("resolve_h", 0, v, Null, h, FALSE)
DoRejectH(h, e) == Item("reject_h", 0, Unit, e, h, FALSE)
\* the end of the try block of resolve_h, and of resolve_h
EndTry(h) == Item("try_h", 0, Unit, Null, h, FALSE)
\* the end of resolve_h (after its catch block) or of reject_h
EndH(h) == Item("ret_h", 0, Unit, Null, h, FALSE)
\* handlers_.clear() and the end of the lock_guard of resolve / reject
ClearUnlock(p) == Item("clear_unlock", p, Unit, Null, NoH, FALSE)
\* the end of the lock_guard of attach
Unlock(p) == Item("unlock", p, Unit, Null, NoH, FALSE)
\* the end of the try block of make_promise, p being its result
EndTryMP(p) == Item("try_mp", p, Unit, Null, NoH, FALSE)
\* the public call returns
Return == Item("return", 0, Unit, Null, NoH, TRUE)
\* apply_result of the context of p after its store: ++counter == size
DoCount(p) == Item("count", p, Unit, Null, NoH, FALSE)

\* class state, freshly constructed
\* (at: the rank of its settlement among the settlements, 0 while pending;
\* asserted: assert(!initialized_) of storage::set has failed)
NewState(isvoid) ==
    [status_ |-> "pending", initialized_ |-> FALSE, data_ |-> Unit,
     exception_ |-> Null, mutex_ |-> 0, handlers_ |-> <<>>, void |-> isvoid,
     at |-> 0, asserted |-> FALSE]

Origin(by, src, f, r) == [by |-> by, src |-> src, f |-> f, r |-> r]
NoOrigin == Origin("promise", 0, NoFn, NoFn)

\* nothing invoked yet
\* (call: the public call inside which a handler of the pair was invoked)
NoRun == [res |-> 0, resv |-> Unit, raised |-> FALSE,
          rej |-> 0, reje |-> Null, raised2 |-> FALSE, pos |-> 0, call |-> 0]

\* no context_t: the promise is not the result of make_all_promise
NoContext ==
    [inputs |-> <<>>, results |-> <<>>, counter |-> 0, moves |-> 0,
     written |-> {}, late |-> FALSE]

Pids == 1..Len(states)

(* --------------------------- detail::storage -------------------------- *)

\* set that leaves the storage marked empty
storage_set_unmarked(s, v) ==
    IF s.void THEN s ELSE [s EXCEPT !.data_ = v]

\* storage<T>::set: constructs the value in place and marks it initialized
\* (a promise<void> state has no storage: resolve() skips this)
storage_set(s, v) ==
    IF s.void THEN s
    ELSE [s EXCEPT !.data_ = v, !.initialized_ = TRUE,
                   !.asserted = @ \/ s.initialized_]

(* ----------------------------- call stack ----------------------------- *)

\* a catch block that rejects next itself
resolve_h_catch_direct(h, e) == <<DoReject(h.n, e, FALSE), EndH(h)>>

\* a catch block that swallows the exception
resolve_h_catch_swallow(h, e) == <<EndH(h)>>

\* the catch block of resolve_h: invoke j (the reject_h closure) with the
\* current exception, then return from resolve_h
resolve_h_catch(h, e) == <<DoRejectH(h, e), EndH(h)>>

\* A throw of e from the step before `ag`: the stack unwinds to the nearest
\* try.  A lock_guard on the way is released; leaving a noexcept function
\* (invoke_resolve_handlers_ / invoke_reject_handlers_) calls std::terminate;
\* with no try left the exception leaves the public call.
RECURSIVE Throw(_, _)
Throw(ag, e) ==
    IF ag = <<>>
    THEN [ag |-> <<>>, unl |-> {}, esc |-> e, term |-> FALSE]
    ELSE LET it == Head(ag) IN
         CASE it.op = "try_h" ->
                [ag |-> resolve_h_catch(it.h, e) \o Tail(ag), unl |-> {},
                 esc |-> Null, term |-> FALSE]
           [] it.op = "try_mp" ->    \* catch (...) { result.reject(...); }
                [ag |-> <<DoReject(it.p, e, FALSE)>> \o Tail(ag), unl |-> {},
                 esc |-> Null, term |-> FALSE]
           [] it.op = "return" ->
                [ag |-> ag, unl |-> {}, esc |-> e, term |-> FALSE]
           [] it.op = "clear_unlock" ->
                [ag |-> <<>>, unl |-> {}, esc |-> e, term |-> TRUE]
           [] it.op = "unlock" ->
                LET r == Throw(Tail(ag), e) IN [r EXCEPT !.unl = @ \cup {it.p}]
           [] OTHER -> Throw(Tail(ag), e)

\* The returns at the top of the stack `ag`: handlers return, settle calls
\* clear their queue and release their mutex, the public call returns.
RECURSIVE Finish(_)
Finish(ag) ==
    IF ag = <<>>
    THEN [ag |-> <<>>, clr |-> {}, unl |-> {}, ret |-> FALSE]
    ELSE LET it == Head(ag) IN
         CASE it.op \in {"try_h", "ret_h", "try_mp"} -> Finish(Tail(ag))
           [] it.op = "clear_unlock" ->
                LET r == Finish(Tail(ag))
                IN [r EXCEPT !.clr = @ \cup {it.p}, !.unl = @ \cup {it.p}]
           [] it.op = "unlock" ->
                LET r == Finish(Tail(ag)) IN [r EXCEPT !.unl = @ \cup {it.p}]
           [] it.op = "return" ->
                [ag |-> <<>>, clr |-> {}, unl |-> {}, ret |-> TRUE]
           [] OTHER -> [ag |-> ag, clr |-> {}, unl |-> {}, ret |-> FALSE]

\* the mutexes released, the queues kept
Released_keep(sts, clr, unl) ==
    [p \in DOMAIN sts |->
        [sts[p] EXCEPT !.mutex_ = IF p \in unl THEN 0 ELSE @]]

\* the queues of `clr` cleared and the mutexes of `unl` released
Released(sts, clr, unl) ==
    [p \in DOMAIN sts |->
        [sts[p] EXCEPT !.handlers_ = IF p \in clr THEN <<>> ELSE @,
                       !.mutex_ = IF p \in unl THEN 0 ELSE @]]

\* thread t goes on with `ag` on its stack, the promises being `sts` and
\* the calls `cls`
Continue(t, ag, sts, cls) ==
    LET r == Finish(ag) IN
    /\ agenda' = [agenda EXCEPT ![t] = r.ag]
    /\ states' = Released(sts, r.clr, r.unl)
    /\ calls' = IF r.ret THEN [cls EXCEPT ![cur[t]].done = TRUE] ELSE cls
    /\ cur' = IF r.ret THEN [cur EXCEPT ![t] = 0] ELSE cur

\* thread t throws e with `ag` left on its stack
Raise(t, ag, e, sts) ==
    LET r == Throw(ag, e)
        cls == IF r.esc # Null THEN [calls EXCEPT ![cur[t]].exc = r.esc]
                               ELSE calls
        cls1 == IF r.term THEN [cls EXCEPT ![cur[t]].terminated = TRUE]
                          ELSE cls
    IN Continue(t, r.ag, Released(sts, {}, r.unl), cls1)

\* the public call of thread t gets its return value
Returning(t, top, b) ==
    IF top THEN [calls EXCEPT ![cur[t]].ret = b] ELSE calls

\* std::terminate was called: the process is gone
Terminated == \E c \in 1..Len(calls) : calls[c].terminated

\* the step thread t is at
Head1(t) == Head(agenda[t])
At(t, op) == ~Terminated /\ agenda[t] # <<>> /\ Head(agenda[t]).op = op

(* --------------------------- promise<T>::state ------------------------ *)

\* a state that never counts as settled
settled_never(s) == FALSE

\* the rank of the next settlement of s among the settlements of the
\* promises with a payload (history; the promise<void> are not ranked)
Rank(s) ==
    IF s.void THEN 1
    ELSE 1 + Cardinality({p \in Pids : ~states[p].void /\ states[p].at > 0})

\* if ( status_ != status::pending ) return false;
settled(s) == s.status_ # "pending"

\* the queue walked from its back
invoke_resolve_handlers_reversed(s) ==
    [i \in 1..Len(s.handlers_) |->
        DoResolveH(s.handlers_[Len(s.handlers_) + 1 - i], s.data_)]

\* invoke_resolve_handlers_: every queued resolve_ with the stored value,
\* in queue order
invoke_resolve_handlers_(s) ==
    [i \in 1..Len(s.handlers_) |-> DoResolveH(s.handlers_[i], s.data_)]

\* the queue of reject_ walked from its back
invoke_reject_handlers_reversed(s) ==
    [i \in 1..Len(s.handlers_) |->
        DoRejectH(s.handlers_[Len(s.handlers_) + 1 - i], s.exception_)]

\* invoke_reject_handlers_: every queued reject_ with the stored exception
invoke_reject_handlers_(s) ==
    [i \in 1..Len(s.handlers_) |-> DoRejectH(s.handlers_[i], s.exception_)]

\* the reject handler invoked whatever the status
add_handlers_eager(s, h) ==
    [run |-> <<DoRejectH(h, s.exception_)>>, queue |-> s.handlers_]

\* handlers queued whatever the status
add_handlers_queue_only(s, h) ==
    [run |-> <<>>, queue |-> Append(s.handlers_, h)]

\* add_handlers_: invoke resolve or reject at once on a settled state,
\* queue the pair on a pending one.  The steps to run and the new queue.
add_handlers_(s, h) ==
    IF s.status_ = "resolved"
    THEN [run |-> <<DoResolveH(h, s.data_)>>, queue |-> s.handlers_]
    ELSE IF s.status_ = "rejected"
    THEN [run |-> <<DoRejectH(h, s.exception_)>>, queue |-> s.handlers_]
    ELSE [run |-> <<>>, queue |-> Append(s.handlers_, h)]

\* state::resolve(value)
resolve(t) ==
    /\ At(t, "resolve")
    /\ LET it == Head1(t)
           s == states[it.p]
           s1 == [storage_set(s, it.v) EXCEPT !.status_ = "resolved",
                                              !.mutex_ = t,
                                              !.at = Rank(s)]
       IN /\ s.mutex_ = 0
          /\ IF settled(s)
             THEN Continue(t, Tail(agenda[t]), states,
                           Returning(t, it.top, FALSE))
             ELSE Continue(t, invoke_resolve_handlers_(s1)
                                \o <<ClearUnlock(it.p)>> \o Tail(agenda[t]),
                           [states EXCEPT ![it.p] = s1],
                           Returning(t, it.top, TRUE))
    /\ UNCHANGED <<origin, ran, contexts>>

\* state::reject(e)
reject(t) ==
    /\ At(t, "reject")
    /\ LET it == Head1(t)
           s == states[it.p]
           s1 == [s EXCEPT !.exception_ = it.e, !.status_ = "rejected",
                           !.mutex_ = t, !.at = Rank(s)]
       IN /\ s.mutex_ = 0
          /\ IF settled(s)
             THEN Continue(t, Tail(agenda[t]), states,
                           Returning(t, it.top, FALSE))
             ELSE Continue(t, invoke_reject_handlers_(s1)
                                \o <<ClearUnlock(it.p)>> \o Tail(agenda[t]),
                           [states EXCEPT ![it.p] = s1],
                           Returning(t, it.top, TRUE))
    /\ UNCHANGED <<origin, ran, contexts>>

\* the pairs queued on p so far (history)
Queued(p) == {n \in DOMAIN ran : origin[n].src = p /\ ran[n].pos > 0}

\* state::attach: build resolve_h and reject_h, lock, add_handlers_
\* (ran[n].pos: the pair was queued, as the pos-th of p's pairs)
attach(t) ==
    /\ At(t, "attach")
    /\ LET it == Head1(t)
           s == states[it.p]
           r == add_handlers_(s, it.h)
       IN /\ s.mutex_ = 0
          /\ Continue(t, r.run \o <<Unlock(it.p)>> \o Tail(agenda[t]),
                      [states EXCEPT ![it.p].handlers_ = r.queue,
                                     ![it.p].mutex_ = t],
                      calls)
          /\ ran' = IF s.status_ = "pending"
                    THEN [ran EXCEPT ![it.h.n].pos =
                                        Cardinality(Queued(it.p)) + 1]
                    ELSE ran
    /\ UNCHANGED <<origin, contexts>>

\* the thread waits for a mutex it owns
Waiting(p) == Item("waiting", p, Unit, Null, NoH, FALSE)

\* std::system_error thrown by std::mutex::lock
system_error(p) == Exc("system_error", p)

\* a mutex that lets its owner through: the call returns at once
relock_recursive(t) ==
    /\ At(t, Head1(t).op)
    /\ Head1(t).op \in {"resolve", "reject", "attach"}
    /\ states[Head1(t).p].mutex_ = t
    /\ Continue(t, Tail(agenda[t]), states, calls)
    /\ UNCHANGED <<origin, ran, contexts>>

\* std::lock_guard<std::mutex> guard(mutex_) in resolve, reject and attach,
\* by the thread that owns mutex_: std::mutex is not recursive and the
\* behaviour is undefined.  The thread waits forever, or lock() throws
\* std::system_error (resource_deadlock_would_occur).
relock(t) ==
    /\ At(t, Head1(t).op)
    /\ Head1(t).op \in {"resolve", "reject", "attach"}
    /\ states[Head1(t).p].mutex_ = t
    /\ \/ /\ agenda' = [agenda EXCEPT ![t] = <<Waiting(Head1(t).p)>> \o @]
          /\ UNCHANGED <<states, calls, cur>>
       \/ Raise(t, Tail(agenda[t]), system_error(Head1(t).p), states)
    /\ UNCHANGED <<origin, ran, contexts>>

(* ------------------------ the closures of attach ---------------------- *)

\* the chain make_any_promise builds on input i without its fail(...)
any_chain_then_only(ins, result, i) ==
    <<DoAttach(ins[i], Handler(result + 2 * i - 1,
                               Fn("fwd_resolve", result, 0),
                               Fn("ignore", 0, 0)))>>

\* the body of the loop of make_any_promise for input i:
\*   (*iter).then([resolver](const T& v) { resolver(v); })
\*          .fail([rejector](std::exception_ptr e) { rejector(e); });
\* the positions of `ins` whose promise is settled: kept in the origin of a
\* combinator's result as the inputs that were settled when it was called
AlreadySettled(ins) ==
    {i \in DOMAIN ins : states[ins[i]].status_ # "pending"}

any_chain(ins, result, i) ==
    <<DoAttach(ins[i], Handler(result + 2 * i - 1,
                               Fn("fwd_resolve", result, 0),
                               Fn("ignore", 0, 0))),
      DoAttach(result + 2 * i - 1,
               Handler(result + 2 * i, Fn("unit", 0, 0),
                       Fn("fwd_reject", result, 0)))>>

\* the loop walking the inputs from the last to the first
RECURSIVE any_chains_backward(_, _, _)
any_chains_backward(ins, result, i) ==
    IF i > Len(ins) THEN <<>>
    ELSE any_chains_backward(ins, result, i + 1) \o any_chain(ins, result, i)

\* the loop from input i on
RECURSIVE any_chains(_, _, _)
any_chains(ins, result, i) ==
    IF i > Len(ins) THEN <<>>
    ELSE any_chain(ins, result, i) \o any_chains(ins, result, i + 1)

\* the promises the loop constructs, two per input
any_origins(ins, result) ==
    [k \in 1..(2 * Len(ins)) |->
        IF k % 2 = 1
        THEN Origin("any_then", ins[(k + 1) \div 2],
                    Fn("fwd_resolve", result, 0), Fn("ignore", 0, 0))
        ELSE Origin("any_fail", result + k - 1, Fn("unit", 0, 0),
                    Fn("fwd_reject", result, 0))]

\* std::logic_error("at least one input promise must be provided ...")
logic_error == Exc("logic_error", 0)

\* what an invocation of the callable may do: a continuation of the user
\* returns or raises, the lambdas of the library return
Outcomes(f) ==
    IF f.k \in {"user", "flat"} THEN {"returns", "raises"} ELSE {"returns"}

\* context_t::apply_result, its first statement: results[index] = value;
\* `written` and `late` keep which positions were stored and whether a store
\* came after the buffer was moved out
apply_result_store(c, index, value) ==
    [c EXCEPT !.results = IF index \in DOMAIN @
                          THEN [@ EXCEPT ![index] = value[1]] ELSE @,
              !.written = @ \cup {index},
              !.late = @ \/ c.moves > 0]

\* apply_result true on every increment
apply_result_each(c) ==
    [ctx |-> [c EXCEPT !.counter = @ + 1], last |-> TRUE]

\* apply_result comparing the counter before its increment
apply_result_post(c) ==
    [ctx |-> [c EXCEPT !.counter = @ + 1],
     last |-> c.counter = Len(c.results)]

\* context_t::apply_result, its second statement, on the atomic counter:
\* return ++counter == results.size();
apply_result(c) ==
    [ctx |-> [c EXCEPT !.counter = @ + 1],
     last |-> c.counter + 1 = Len(c.results)]

\* The callable f of the resolve_h closure h invoked with v, with outcome o:
\* what it raises (Null: nothing), what it returns, the calls it makes before
\* it returns, the promises it constructs (q is the next free index) and the
\* contexts it leaves.
InvokeResolveF(h, v, o, q, cx) ==
    LET f == h.resolve
        quiet == [exc |-> Null, val |-> Unit, calls |-> <<>>, new |-> <<>>,
                  cx |-> cx]
    IN
    CASE f.k = "user" /\ o = "raises" ->
            [quiet EXCEPT !.exc = Exc("x", h.n)]
      [] f.k = "user" /\ o = "returns" ->
            [quiet EXCEPT !.val = UserF(v)]
      [] f.k = "ident" ->    \* fail: [](const T& value) { return value; }
            [quiet EXCEPT !.val = v]
      [] f.k = "unit" ->     \* promise<void>::fail: []{}
            quiet
      [] f.k = "flat" /\ o = "raises" ->
            \* the user's on_resolve raises instead of returning a promise
            [quiet EXCEPT !.exc = Exc("x", f.a)]
      [] f.k = "flat" /\ o = "returns" ->
            \* np = f(v): the user's on_resolve returns the promise f.b;
            \* np.then([n](const R& nv) { n.resolve(nv); },
            \*         [n](std::exception_ptr e) { n.reject(e); });
            [quiet EXCEPT
                !.calls = <<DoAttach(f.b,
                                Handler(q, Fn("fwd_resolve", f.a, 0),
                                           Fn("fwd_reject", f.a, 0)))>>,
                !.new = <<[st |-> NewState(TRUE),
                           org |-> Origin("flat_inner", f.b,
                                          Fn("fwd_resolve", f.a, 0),
                                          Fn("fwd_reject", f.a, 0))]>>]
      [] f.k = "reenter" ->
            \* a continuation of the user that calls f.b on the promise f.a
            \* (the promise it is attached to) and returns its argument
            [quiet EXCEPT
                !.val = v,
                !.calls =
                    CASE f.b = "resolve" -> <<DoResolve(f.a, v, FALSE)>>
                      [] f.b = "reject" ->
                            <<DoReject(f.a, Exc("error", h.n), FALSE)>>
                      [] f.b = "then" ->
                            <<DoAttach(f.a, Handler(q, Fn("user", 0, 0),
                                                    Fn("ignore", 0, 0)))>>
                      [] OTHER ->
                            <<DoAttach(f.a, Handler(q, Fn("ident", 0, 0),
                                                    Fn("user", 0, 0)))>>,
                !.new =
                    CASE f.b = "then" ->
                            <<[st |-> NewState(FALSE),
                               org |-> Origin("then1", f.a, Fn("user", 0, 0),
                                              Fn("ignore", 0, 0))]>>
                      [] f.b = "fail" ->
                            <<[st |-> NewState(FALSE),
                               org |-> Origin("fail", f.a, Fn("ident", 0, 0),
                                              Fn("user", 0, 0))]>>
                      [] OTHER -> <<>>]
      [] f.k = "flat_any" /\ f.b = <<>> ->
            \* then_any: make_any_promise(f(v)), f(v) empty, throws
            [quiet EXCEPT !.exc = logic_error]
      [] f.k = "flat_any" ->
            \* then_any: np = make_any_promise(f(v)), f(v) being f.b: the
            \* promise q with its chains on the inputs; then np.then(...)
            \* of the flattening then, on a promise<void>
            LET last == q + 2 * Len(f.b) + 1 IN
            [quiet EXCEPT
                !.calls = any_chains(f.b, q, 1) \o <<EndTryMP(q)>>
                            \o <<DoAttach(q,
                                    Handler(last, Fn("fwd_resolve", f.a, 0),
                                            Fn("fwd_reject", f.a, 0)))>>,
                !.new = <<[st |-> NewState(FALSE),
                           org |-> Origin("make_any", 0,
                                          Fn("any", AlreadySettled(f.b), f.b),
                                          NoFn)]>>
                        \o [k \in 1..(2 * Len(f.b)) |->
                                [st |-> NewState(TRUE),
                                 org |-> any_origins(f.b, q)[k]]]
                        \o <<[st |-> NewState(TRUE),
                              org |-> Origin("flat_inner", q,
                                             Fn("fwd_resolve", f.a, 0),
                                             Fn("fwd_reject", f.a, 0))]>>]
      [] f.k = "fwd_resolve" ->    \* n.resolve(nv)
            [quiet EXCEPT !.calls = <<DoResolve(f.a, v, FALSE)>>]
      [] f.k = "all" ->
            \* if ( context->apply_result(result_index, v) )
            \*     resolver(std::move(context->results));
            \* the store of apply_result here, its increment and the call
            \* of the resolver in the step apply_result_count
            [quiet EXCEPT
                !.calls = <<DoCount(f.a)>>,
                !.cx = [cx EXCEPT ![f.a] = apply_result_store(@, f.b, v)]]
      [] OTHER -> quiet

\* The callable f of the reject_h closure h invoked with e, with outcome o:
\* what it raises and the calls it makes before it returns.
InvokeRejectF(h, e, o) ==
    LET f == h.reject IN
    CASE f.k = "user" /\ o = "raises" ->
            [exc |-> Exc("x2", h.n), calls |-> <<>>]
      [] f.k = "user" /\ o = "returns" ->
            [exc |-> Null, calls |-> <<>>]
      [] f.k = "ignore" ->   \* then(on_resolve): [](std::exception_ptr){}
            [exc |-> Null, calls |-> <<>>]
      [] f.k = "fwd_reject" ->     \* n.reject(e) / rejector(e)
            [exc |-> Null, calls |-> <<DoReject(f.a, e, FALSE)>>]
      [] OTHER ->
            [exc |-> Null, calls |-> <<>>]

\* next resolved with the value received, not with the value returned
resolve_h_try_same(h, v, r, made, isvoid) ==
    made \o <<DoResolve(h.n, IF isvoid THEN Unit ELSE v, FALSE), EndTry(h)>>

\* next rejected with the error received whatever f raised
reject_h_try_orig(h, e, exc, made) ==
    made \o <<DoReject(h.n, e, FALSE), EndH(h)>>

\* the try block of resolve_h after f returned r, making the calls `made`:
\*   n.resolve(std::move(r));   (n.resolve(); for a promise<void> n)
resolve_h_try(h, v, r, made, isvoid) ==
    made \o <<DoResolve(h.n, IF isvoid THEN Unit ELSE r, FALSE), EndTry(h)>>

\* reject_h after f returned or raised `exc`, making the calls `made`:
\*   try { f(e); n.reject(e); } catch (...) { n.reject(current_exception()); }
reject_h_try(h, e, exc, made) ==
    made \o <<DoReject(h.n, IF exc # Null THEN exc ELSE e, FALSE), EndH(h)>>

\* the closure resolve_h of attach, invoked with v:
\*   try { r = f(v); n.resolve(r); } catch (...) { j(current_exception()); }
resolve_h(t) ==
    /\ At(t, "resolve_h")
    /\ \E o \in Outcomes(Head1(t).h.resolve) :
        LET it == Head1(t)
            h == it.h
            r == InvokeResolveF(h, it.v, o, Len(states) + 1, contexts)
            sts == states \o [i \in 1..Len(r.new) |-> r.new[i].st]
        IN /\ ran' = [ran \o [i \in 1..Len(r.new) |-> NoRun]
                        EXCEPT ![h.n].res = @ + 1, ![h.n].resv = it.v,
                               ![h.n].raised = (r.exc # Null),
                               ![h.n].call = cur[t]]
           /\ origin' = origin \o [i \in 1..Len(r.new) |-> r.new[i].org]
           /\ contexts' = r.cx \o [i \in 1..Len(r.new) |-> NoContext]
           /\ IF r.exc # Null
              THEN Raise(t, <<EndTry(h)>> \o Tail(agenda[t]), r.exc, sts)
              ELSE Continue(t, resolve_h_try(h, it.v, r.val, r.calls,
                                             states[h.n].void)
                                \o Tail(agenda[t]),
                            sts, calls)

\* the lambda of make_all_promise after the store of apply_result:
\*   if ( ++counter == results.size() ) resolver(std::move(context->results));
apply_result_count(t) ==
    /\ At(t, "count")
    /\ LET p == Head1(t).p
           r == apply_result(contexts[p])
       IN IF r.last
          THEN /\ contexts' = [contexts EXCEPT ![p] =
                                [r.ctx EXCEPT !.results = <<>>,
                                              !.moves = @ + 1]]
               /\ Continue(t, <<DoResolve(p, r.ctx.results, FALSE)>>
                                \o Tail(agenda[t]),
                           states, calls)
          ELSE /\ contexts' = [contexts EXCEPT ![p] = r.ctx]
               /\ Continue(t, Tail(agenda[t]), states, calls)
    /\ UNCHANGED <<origin, ran>>

\* the closure reject_h of attach, invoked with e
reject_h(t) ==
    /\ At(t, "reject_h")
    /\ \E o \in Outcomes(Head1(t).h.reject) :
        LET it == Head1(t)
            h == it.h
            r == InvokeRejectF(h, it.e, o)
        IN /\ ran' = [ran EXCEPT ![h.n].rej = @ + 1, ![h.n].reje = it.e,
                                 ![h.n].raised2 = (r.exc # Null),
                                 ![h.n].call = cur[t]]
           /\ Continue(t, reject_h_try(h, it.e, r.exc, r.calls)
                                \o Tail(agenda[t]),
                       states, calls)
    /\ UNCHANGED <<origin, contexts>>

(* ----------------------------- promise<T> ----------------------------- *)

\* the record of a public call `op` on p with arguments v, e, returning the
\* promise q
Call(op, p, v, e, q) ==
    [op |-> op, p |-> p, v |-> v, e |-> e, q |-> q,
     ret |-> FALSE, exc |-> Null, done |-> FALSE, terminated |-> FALSE]

\* thread t makes public call `op`, which runs `steps`
Begin(t, op, p, v, e, q, steps) ==
    /\ ~Terminated
    /\ cur[t] = 0
    /\ Len(calls) < MaxOps
    /\ calls' = Append(calls, Call(op, p, v, e, q))
    /\ cur' = [cur EXCEPT ![t] = Len(calls) + 1]
    /\ agenda' = [agenda EXCEPT ![t] = steps \o <<Return>>]

\* promise<T>::resolve(value)
promise_resolve(t, p) ==
    LET v == Scalar(Len(calls) + 1) IN
    /\ Begin(t, "resolve", p, v, Null, 0, <<DoResolve(p, v, TRUE)>>)
    /\ UNCHANGED <<states, origin, ran, contexts>>

\* promise<T>::reject(e)
promise_reject(t, p) ==
    LET e == Exc("error", Len(calls) + 1) IN
    /\ Begin(t, "reject", p, Unit, e, 0, <<DoReject(p, e, TRUE)>>)
    /\ UNCHANGED <<states, origin, ran, contexts>>

\* promise<T>::then(on_resolve, on_reject), on_resolve returning a plain
\* value: promise<ResolveFR> next; state_->attach(next, ...); return next;
then2(t, p, f, r, by) ==
    LET next == Len(states) + 1 IN
    /\ Begin(t, by, p, Unit, Null, next, <<DoAttach(p, Handler(next, f, r))>>)
    /\ states' = Append(states, NewState(FALSE))
    /\ origin' = Append(origin, Origin(by, p, f, r))
    /\ ran' = Append(ran, NoRun)
    /\ contexts' = Append(contexts, NoContext)

\* promise<T>::then(on_resolve) == then(on_resolve, [](std::exception_ptr){})
then1(t, p, f) == then2(t, p, f, Fn("ignore", 0, 0), "then1")

\* fail with the user's continuation on the resolve side too
fail_mapped(t, p, r) == then2(t, p, Fn("user", 0, 0), r, "fail")

\* promise<T>::fail(on_reject) ==
\*     then([](const T& value) { return value; }, on_reject)
fail(t, p, r) == then2(t, p, Fn("ident", 0, 0), r, "fail")

\* the flattening then without the forwarding of p's rejection
then_flat_silent(t, p, inner) ==
    LET next == Len(states) + 1
        mid == Len(states) + 2
        f == Fn("flat", next, inner)
    IN
    /\ Begin(t, "then_flat", p, Unit, Null, next,
             <<DoAttach(p, Handler(mid, f, Fn("ignore", 0, 0)))>>)
    /\ states' = states \o <<NewState(FALSE), NewState(TRUE)>>
    /\ origin' = origin \o <<Origin("then_flat", p, f, NoFn),
                             Origin("flat_mid", p, f, Fn("ignore", 0, 0))>>
    /\ ran' = ran \o <<NoRun, NoRun>>
    /\ contexts' = contexts \o <<NoContext, NoContext>>

\* promise<T>::then(on_resolve), on_resolve returning a promise (here: the
\* promise `inner`):
\*   promise<R> next;
\*   then([n = next, f](const T& v) { auto np = f(v); np.then(...); },
\*        [n = next](std::exception_ptr e) { n.reject(e); });
\*   return next;
\* The inner then is the two-argument one: it constructs a promise<void>
\* (mid) and attaches the two lambdas to p.
then_flat(t, p, inner) ==
    LET next == Len(states) + 1
        mid == Len(states) + 2
        f == Fn("flat", next, inner)
        r == Fn("fwd_reject", next, 0)
    IN
    /\ Begin(t, "then_flat", p, Unit, Null, next,
             <<DoAttach(p, Handler(mid, f, r))>>)
    /\ states' = states \o <<NewState(FALSE), NewState(TRUE)>>
    /\ origin' = origin \o <<Origin("then_flat", p, f, NoFn),
                             Origin("flat_mid", p, f, r)>>
    /\ ran' = ran \o <<NoRun, NoRun>>
    /\ contexts' = contexts \o <<NoContext, NoContext>>

(* ----------------------------- make_promise --------------------------- *)

\* what the initiator passed to make_promise does with the two callables
Initiators == {"resolves", "rejects", "raises", "resolves_raises", "nothing"}

\* the initiator is being invoked / throws after its call of the resolver
DoInitiator(p, o) == Item("initiator", p, Unit, Null, Handler(p, Fn(o, 0, 0), NoFn), FALSE)
DoInitiatorThrow(p, e) == Item("initiator_throw", p, Unit, e, NoH, FALSE)

\* make_promise without its try block
make_promise_nocatch(t, o) ==
    LET result == Len(states) + 1 IN
    /\ Begin(t, "make_promise", 0, Unit, Null, result,
             <<DoInitiator(result, o)>>)
    /\ states' = Append(states, NewState(FALSE))
    /\ origin' = Append(origin, Origin("make_promise", 0, Fn(o, 0, 0), NoFn))
    /\ ran' = Append(ran, NoRun)
    /\ contexts' = Append(contexts, NoContext)

\* make_promise<R>(f):
\*   promise<R> result;
\*   try { f(resolver, rejector); } catch (...) { result.reject(...); }
\*   return result;
make_promise(t, o) ==
    LET result == Len(states) + 1 IN
    /\ Begin(t, "make_promise", 0, Unit, Null, result,
             <<DoInitiator(result, o), EndTryMP(result)>>)
    /\ states' = Append(states, NewState(FALSE))
    /\ origin' = Append(origin, Origin("make_promise", 0, Fn(o, 0, 0), NoFn))
    /\ ran' = Append(ran, NoRun)
    /\ contexts' = Append(contexts, NoContext)

\* invoke(f, resolver, rejector): the initiator runs, with the callables
\* bound to result (resolver(v) is result.resolve(v), rejector(e) is
\* result.reject(e))
initiator(t) ==
    /\ At(t, "initiator")
    /\ LET it == Head1(t)
           o == it.h.resolve.k
           v == Scalar(cur[t])
           e == Exc("error", cur[t])
           x == Exc("init", it.p)
           rest == Tail(agenda[t])
       IN /\ ran' = [ran EXCEPT ![it.p].res = @ + 1, ![it.p].call = cur[t]]
          /\ CASE o = "raises" -> Raise(t, rest, x, states)
               [] o = "resolves" ->
                    Continue(t, <<DoResolve(it.p, v, FALSE)>> \o rest,
                             states, calls)
               [] o = "rejects" ->
                    Continue(t, <<DoReject(it.p, e, FALSE)>> \o rest,
                             states, calls)
               [] o = "resolves_raises" ->
                    Continue(t, <<DoResolve(it.p, v, FALSE),
                                  DoInitiatorThrow(it.p, x)>> \o rest,
                             states, calls)
               [] OTHER -> Continue(t, rest, states, calls)
    /\ UNCHANGED <<origin, contexts>>

\* the initiator throws after the resolver returned
initiator_throw(t) ==
    /\ At(t, "initiator_throw")
    /\ Raise(t, Tail(agenda[t]), Head1(t).e, states)
    /\ UNCHANGED <<origin, ran, contexts>>

(* --------------------------- make_all_promise ------------------------- *)

\* the chain make_all_promise builds on input i without its fail(...)
all_chain_then_only(ins, result, i) ==
    <<DoAttach(ins[i], Handler(result + 2 * i - 1, Fn("all", result, i),
                               Fn("ignore", 0, 0)))>>

\* the body of the loop of make_all_promise for input i (result_index i-1):
\*   (*iter).then([context, resolver, result_index](const T& v) { ... })
\*          .fail([rejector](std::exception_ptr e) { rejector(e); });
\* then constructs the promise<void> result + 2i - 1 and attaches to the
\* input; fail constructs the promise<void> result + 2i and attaches to
\* the former.
all_chain(ins, result, i) ==
    <<DoAttach(ins[i], Handler(result + 2 * i - 1, Fn("all", result, i),
                               Fn("ignore", 0, 0))),
      DoAttach(result + 2 * i - 1,
               Handler(result + 2 * i, Fn("unit", 0, 0),
                       Fn("fwd_reject", result, 0)))>>

\* the loop from input i on
RECURSIVE all_chains(_, _, _)
all_chains(ins, result, i) ==
    IF i > Len(ins) THEN <<>>
    ELSE all_chain(ins, result, i) \o all_chains(ins, result, i + 1)

\* the promises the loop constructs, two per input
all_origins(ins, result) ==
    [k \in 1..(2 * Len(ins)) |->
        IF k % 2 = 1
        THEN Origin("all_then", ins[(k + 1) \div 2],
                    Fn("all", result, (k + 1) \div 2), Fn("ignore", 0, 0))
        ELSE Origin("all_fail", result + k - 1, Fn("unit", 0, 0),
                    Fn("fwd_reject", result, 0))]

\* context_t(count): results(count), counter 0
context_t(ins) ==
    [inputs |-> ins, results |-> [i \in 1..Len(ins) |-> 0], counter |-> 0,
     moves |-> 0, written |-> {}, late |-> FALSE]

\* make_all_promise(begin, end) over the promises `ins`:
\*   if ( begin == end ) return make_resolved_promise(vector());
\*   return make_promise<vector>([begin, end](resolver, rejector) { loop });
\* make_promise constructs `result` and runs the initiator in a try block.
make_all_promise(t, ins) ==
    LET result == Len(states) + 1 IN
    /\ Begin(t, "make_all", 0, Unit, Null, result,
             IF ins = <<>>
             THEN <<DoResolve(result, <<>>, FALSE)>>
             ELSE all_chains(ins, result, 1) \o <<EndTryMP(result)>>)
    /\ states' = states \o <<NewState(FALSE)>>
                        \o [k \in 1..(2 * Len(ins)) |-> NewState(TRUE)]
    /\ origin' = origin \o <<Origin("make_all", 0,
                                     Fn("all_of", AlreadySettled(ins), ins),
                                     NoFn)>>
                        \o all_origins(ins, result)
    /\ ran' = ran \o [k \in 1..(2 * Len(ins) + 1) |-> NoRun]
    /\ contexts' = contexts \o <<context_t(ins)>>
                            \o [k \in 1..(2 * Len(ins)) |-> NoContext]

(* --------------------------- make_any_promise ------------------------- *)

\* return make_promise<T>([begin, end](resolver, rejector) { loop });
make_any_loop(t, ins) ==
    LET result == Len(states) + 1 IN
    /\ Begin(t, "make_any", 0, ins, Null, result,
             any_chains(ins, result, 1) \o <<EndTryMP(result)>>)
    /\ states' = states \o <<NewState(FALSE)>>
                        \o [k \in 1..(2 * Len(ins)) |-> NewState(TRUE)]
    /\ origin' = origin \o <<Origin("make_any", 0,
                                     Fn("any", AlreadySettled(ins), ins),
                                     NoFn)>>
                        \o any_origins(ins, result)
    /\ ran' = ran \o [k \in 1..(2 * Len(ins) + 1) |-> NoRun]
    /\ contexts' = contexts \o [k \in 1..(2 * Len(ins) + 1) |-> NoContext]

\* make_any_promise without the test of the range
make_any_unchecked(t, ins) == make_any_loop(t, ins)

\* make_any_promise(begin, end) over the promises `ins`:
\*   if ( begin == end ) throw std::logic_error(...);
\*   return make_promise<T>(...);
\* The throw leaves the call at once: the call is over, with the exception.
make_any_promise(t, ins) ==
    IF ins = <<>>
    THEN /\ ~Terminated
         /\ cur[t] = 0
         /\ Len(calls) < MaxOps
         /\ calls' = Append(calls, [Call("make_any", 0, ins, Null, 0)
                                        EXCEPT !.exc = logic_error,
                                               !.done = TRUE])
         /\ UNCHANGED <<states, origin, ran, agenda, cur, contexts>>
    ELSE make_any_loop(t, ins)

(* ------------------------------- then_any ----------------------------- *)

\* then_any without the forwarding of rejections to next
then_any_silent(t, p, ins) ==
    LET next == Len(states) + 1
        mid == Len(states) + 2
        f == Fn("flat_any", next, ins)
    IN
    /\ Begin(t, "then_any", p, ins, Null, next,
             <<DoAttach(p, Handler(mid, f, Fn("ignore", 0, 0)))>>)
    /\ states' = states \o <<NewState(FALSE), NewState(TRUE)>>
    /\ origin' = origin \o <<Origin("then_any", p, f, NoFn),
                             Origin("flat_mid", p, f, Fn("ignore", 0, 0))>>
    /\ ran' = ran \o <<NoRun, NoRun>>
    /\ contexts' = contexts \o <<NoContext, NoContext>>

\* promise<T>::then_any(on_resolve), on_resolve returning the collection
\* `ins`:  return then([f](const T& v) { return make_any_promise(f(v)); });
\* the lambda returns a promise, so this is the flattening then
then_any(t, p, ins) ==
    LET next == Len(states) + 1
        mid == Len(states) + 2
        f == Fn("flat_any", next, ins)
        r == Fn("fwd_reject", next, 0)
    IN
    /\ Begin(t, "then_any", p, ins, Null, next,
             <<DoAttach(p, Handler(mid, f, r))>>)
    /\ states' = states \o <<NewState(FALSE), NewState(TRUE)>>
    /\ origin' = origin \o <<Origin("then_any", p, f, NoFn),
                             Origin("flat_mid", p, f, r)>>
    /\ ran' = ran \o <<NoRun, NoRun>>
    /\ contexts' = contexts \o <<NoContext, NoContext>>

(* --------------------------- specifications --------------------------- *)

\* the promises the program constructed itself: promise<int> p;
Roots == {p \in Pids : origin[p].by = "promise"}

\* promise<int> handles a caller holds and may chain on
Chainable == {p \in Pids : ~states[p].void}

\* a continuation of the user
User == Fn("user", 0, 0)

InitWith(n) ==
    /\ states = [i \in 1..n |-> NewState(FALSE)]
    /\ origin = [i \in 1..n |-> NoOrigin]
    /\ ran = [i \in 1..n |-> NoRun]
    /\ contexts = [i \in 1..n |-> NoContext]
    /\ agenda = [t \in Threads |-> <<>>]
    /\ cur = [t \in Threads |-> 0]
    /\ calls = <<>>

\* One promise<int> p; two threads settle it and chain on it and on the
\* promises the chaining returns.
Init == InitWith(1)

Next ==
    \E t \in Threads :
        \/ resolve(t)
        \/ reject(t)
        \/ attach(t)
        \/ resolve_h(t)
        \/ reject_h(t)
        \/ \E p \in Roots : promise_resolve(t, p)
        \/ \E p \in Roots : promise_reject(t, p)
        \/ \E p \in Chainable : then1(t, p, User)
        \/ \E p \in Chainable : then2(t, p, User, User, "then2")
        \/ \E p \in Chainable : fail(t, p, User)

Spec == Init /\ [][Next]_vars

\* Two promise<int>, p and inner; the threads settle them and chain on one
\* a continuation that returns the other.
InitFlat == InitWith(2)

NextFlat ==
    \E t \in Threads :
        \/ resolve(t)
        \/ reject(t)
        \/ attach(t)
        \/ resolve_h(t)
        \/ reject_h(t)
        \/ \E p \in Roots : promise_resolve(t, p)
        \/ \E p \in Roots : promise_reject(t, p)
        \/ \E p, inner \in Roots : p # inner /\ then_flat(t, p, inner)

SpecFlat == InitFlat /\ [][NextFlat]_vars

\* the collections make_all_promise is called on: none, the two promises,
\* one promise twice
AllInputs == {<<>>, <<1, 2>>, <<1, 1>>}

\* Two promise<int>; both threads settle them, the first aggregates them.
InitAll == InitWith(2)

NextAll ==
    \E t \in Threads :
        \/ resolve(t)
        \/ reject(t)
        \/ attach(t)
        \/ resolve_h(t)
        \/ reject_h(t)
        \/ \E p \in Roots : promise_resolve(t, p)
        \/ \E p \in Roots : promise_reject(t, p)
        \/ apply_result_count(t)
        \/ \E ins \in AllInputs : t = 1 /\ make_all_promise(t, ins)

SpecAll == InitAll /\ [][NextAll]_vars

\* the collections make_any_promise is called on
AnyInputs == {<<>>, <<1, 2>>, <<1, 1>>}

\* Two promise<int>; both threads settle them, the first races them.
InitAny == InitWith(2)

NextAny ==
    \E t \in Threads :
        \/ resolve(t)
        \/ reject(t)
        \/ attach(t)
        \/ resolve_h(t)
        \/ reject_h(t)
        \/ \E p \in Roots : promise_resolve(t, p)
        \/ \E p \in Roots : promise_reject(t, p)
        \/ \E ins \in AnyInputs : t = 1 /\ make_any_promise(t, ins)

SpecAny == InitAny /\ [][NextAny]_vars

\* No promise at first; the threads bridge initiators into promises and
\* chain on these.
InitMake == InitWith(0)

NextMake ==
    \E t \in Threads :
        \/ resolve(t)
        \/ reject(t)
        \/ attach(t)
        \/ resolve_h(t)
        \/ reject_h(t)
        \/ initiator(t)
        \/ initiator_throw(t)
        \/ \E o \in Initiators : make_promise(t, o)
        \/ \E p \in Chainable : then1(t, p, User)

SpecMake == InitMake /\ [][NextMake]_vars

\* the calls a continuation makes on the promise it is attached to
ReenterOps == {"resolve", "reject", "then", "fail"}

\* One promise<int> p; the threads settle it and chain on it continuations
\* that call back into p.
InitReenter == InitWith(1)

NextReenter ==
    \E t \in Threads :
        \/ resolve(t)
        \/ reject(t)
        \/ attach(t)
        \/ resolve_h(t)
        \/ reject_h(t)
        \/ relock(t)
        \/ \E p \in Roots : promise_resolve(t, p)
        \/ \E p \in Roots : promise_reject(t, p)
        \/ \E p \in Roots : \E op \in ReenterOps :
                then1(t, p, Fn("reenter", p, op))

SpecReenter == InitReenter /\ [][NextReenter]_vars

\* the collections the on_resolve of then_any returns: none, the second
\* promise
ThenAnyInputs == {<<>>, <<2>>}

\* Two promise<int>; the threads settle them and chain then_any on the
\* first.
InitThenAny == InitWith(2)

NextThenAny ==
    \E t \in Threads :
        \/ resolve(t)
        \/ reject(t)
        \/ attach(t)
        \/ resolve_h(t)
        \/ reject_h(t)
        \/ \E p \in Roots : promise_resolve(t, p)
        \/ \E p \in Roots : promise_reject(t, p)
        \/ \E ins \in ThenAnyInputs : then_any(t, 1, ins)

SpecThenAny == InitThenAny /\ [][NextThenAny]_vars

\* A promise<int> p and q = p.then(f) as they are once that call has
\* returned with p pending: the pair of q is the first in p's queue.  The
\* threads settle p and chain on p, on q and on what the chaining returns.
InitChain ==
    /\ states = <<[NewState(FALSE) EXCEPT
                        !.handlers_ = <<Handler(2, User, Fn("ignore", 0, 0))>>],
                  NewState(FALSE)>>
    /\ origin = <<NoOrigin, Origin("then1", 1, User, Fn("ignore", 0, 0))>>
    /\ ran = <<NoRun, [NoRun EXCEPT !.pos = 1]>>
    /\ contexts = <<NoContext, NoContext>>
    /\ agenda = [t \in Threads |-> <<>>]
    /\ cur = [t \in Threads |-> 0]
    /\ calls = <<>>

NextChain ==
    \E t \in Threads :
        \/ resolve(t)
        \/ reject(t)
        \/ attach(t)
        \/ resolve_h(t)
        \/ reject_h(t)
        \/ \E p \in Roots : promise_resolve(t, p)
        \/ \E p \in Roots : promise_reject(t, p)
        \/ \E p \in Chainable : then1(t, p, User)

SpecChain == InitChain /\ [][NextChain]_vars

\* Two promise<int> p1, p2 and q = p1.then(f), f returning p2, as they are
\* once that call has returned with p1 pending.  The threads settle p1 and
\* p2 and chain flattening continuations on one that return the other.
InitCross ==
    LET f == Fn("flat", 3, 2)
        r == Fn("fwd_reject", 3, 0)
    IN
    /\ states = <<[NewState(FALSE) EXCEPT !.handlers_ = <<Handler(4, f, r)>>],
                  NewState(FALSE), NewState(FALSE), NewState(TRUE)>>
    /\ origin = <<NoOrigin, NoOrigin, Origin("then_flat", 1, f, NoFn),
                  Origin("flat_mid", 1, f, r)>>
    /\ ran = <<NoRun, NoRun, NoRun, [NoRun EXCEPT !.pos = 1]>>
    /\ contexts = [i \in 1..4 |-> NoContext]
    /\ agenda = [t \in Threads |-> <<>>]
    /\ cur = [t \in Threads |-> 0]
    /\ calls = <<>>

NextCross ==
    \E t \in Threads :
        \/ resolve(t)
        \/ reject(t)
        \/ attach(t)
        \/ resolve_h(t)
        \/ reject_h(t)
        \/ \E p \in Roots : promise_resolve(t, p)
        \/ \E p \in Roots : promise_reject(t, p)
        \/ \E p, inner \in Roots : p # inner /\ then_flat(t, p, inner)

SpecCross == InitCross /\ [][NextCross]_vars

\* the collection given to the combinators
CombineInputs == {<<1, 2>>}

\* Two promise<int>; the threads settle them and thread 1 combines them with
\* make_all_promise and make_any_promise.
InitCombine == InitWith(2)

\* what a thread does inside a call it has begun
Step(t) ==
    \/ resolve(t)
    \/ reject(t)
    \/ attach(t)
    \/ resolve_h(t)
    \/ reject_h(t)
    \/ apply_result_count(t)

NextCombine ==
    \E t \in Threads :
        \/ Step(t)
        \/ \E p \in Roots : promise_resolve(t, p)
        \/ \E p \in Roots : promise_reject(t, p)
        \/ \E ins \in CombineInputs : t = 1 /\ make_all_promise(t, ins)
        \/ \E ins \in CombineInputs : t = 1 /\ make_any_promise(t, ins)

SpecCombine == InitCombine /\ [][NextCombine]_vars

\* A thread inside a call keeps running: every call is ordinary code on a
\* running thread, which waits only in std::lock_guard for a mutex that
\* another thread holds.  Nothing obliges a thread to begin a call.
Fairness == \A t \in Threads : WF_vars(Step(t))

\* Thread 1 combines the two promises and settles the first, thread 2
\* settles the second.
NextLive ==
    \E t \in Threads :
        \/ Step(t)
        \/ promise_resolve(t, t)
        \/ promise_reject(t, t)
        \/ \E ins \in CombineInputs : t = 1 /\ make_all_promise(t, ins)
        \/ \E ins \in CombineInputs : t = 1 /\ make_any_promise(t, ins)

SpecLive == InitCombine /\ [][NextLive]_vars /\ Fairness

(* ------------------------------- claims ------------------------------- *)

Status(p) == states[p].status_
CallIds == 1..Len(calls)

\* the public resolve / reject calls on p
SettleCalls(p) ==
    {c \in CallIds : calls[c].p = p /\ calls[c].op \in {"resolve", "reject"}}

\* the pairs attached by then / fail: n is the promise the call returned
Pairs(bys) == {n \in Pids : origin[n].by \in bys}
AllPairs == Pairs({"then1", "then2", "fail"})
Src(n) == origin[n].src

\* the attach of the pair n has been done
Attached(n) ==
    \A t \in Threads : \A i \in DOMAIN agenda[t] :
        ~(agenda[t][i].op = "attach" /\ agenda[t][i].h.n = n)

\* a handler of the pair n is being invoked
Running(n) ==
    \E t \in Threads : \E i \in DOMAIN agenda[t] :
        agenda[t][i].op \in {"try_h", "ret_h"} /\ agenda[t][i].h.n = n

\* a handler of the pair n has been invoked
Begun(n) == ran[n].res + ran[n].rej > 0

\* the pair n is attached and no call holds the lock of its source
Quiet(n) == Attached(n) /\ states[Src(n)].mutex_ = 0

\* C1: of the resolve / reject calls on one promise exactly one returns
\* true, the one that made the transition; every other call returns false
\* and the status and the stored value / error stay as the winner set them.
C1_ExactlyOneSettles ==
    \A p \in Roots :
        LET won == {c \in SettleCalls(p) : calls[c].ret} IN
        /\ Cardinality(won) <= 1
        /\ (\E c \in SettleCalls(p) : calls[c].done) => won # {}
        /\ won = {} => Status(p) = "pending"
        /\ \A c \in won :
            IF calls[c].op = "resolve"
            THEN /\ Status(p) = "resolved"
                 /\ states[p].initialized_
                 /\ states[p].data_ = calls[c].v
                 /\ states[p].exception_ = Null
            ELSE /\ Status(p) = "rejected"
                 /\ ~states[p].initialized_
                 /\ states[p].exception_ = calls[c].e

\* a resolve and a reject on the same promise both returned, one with true
\* and one with false
C1_Witness ==
    \E c, d \in CallIds :
        /\ calls[c].p = calls[d].p
        /\ calls[c].op = "resolve" /\ calls[d].op = "reject"
        /\ calls[c].done /\ calls[d].done
        /\ calls[c].ret # calls[d].ret

\* C2, read strictly, for the pairs whose reject handler is the caller's: of
\* every attached pair exactly one handler is invoked, exactly once, the one
\* matching the outcome and with the final value / error of the source.
C2_ExactlyOneHandler ==
    \A n \in Pairs({"then2", "fail"}) :
        /\ ran[n].res + ran[n].rej <= 1
        /\ ran[n].res = 1 =>
                Status(Src(n)) = "resolved"
                /\ ran[n].resv = states[Src(n)].data_
        /\ ran[n].rej = 1 =>
                Status(Src(n)) = "rejected"
                /\ ran[n].reje = states[Src(n)].exception_
        /\ (Quiet(n) /\ settled(states[Src(n)])) => Begun(n)

\* C2: the handler matching the outcome is invoked exactly once with
\* the final value / error, whenever the pair was attached; the other
\* handler is not invoked, except that the reject handler is invoked once,
\* with the raised condition, when the resolve handler of the pair raises.
C2_MatchingHandlerOnce ==
    \A n \in AllPairs :
        LET p == Src(n) IN
        /\ ran[n].res <= 1 /\ ran[n].rej <= 1
        /\ ran[n].res = 1 =>
                Status(p) = "resolved" /\ ran[n].resv = states[p].data_
        /\ ran[n].rej = 1 =>
                IF Status(p) = "rejected"
                THEN ran[n].res = 0 /\ ran[n].reje = states[p].exception_
                ELSE ran[n].res = 1 /\ ran[n].raised
                     /\ ran[n].reje = Exc("x", n)
        /\ (Quiet(n) /\ Status(p) = "resolved") =>
                ran[n].res = 1 /\ (ran[n].rej = 1 <=> ran[n].raised)
        /\ (Quiet(n) /\ Status(p) = "rejected") => ran[n].rej = 1

\* pairs attached before and after the settlement of their source have all
\* been served
C2_Witness ==
    \E a, b \in AllPairs :
        /\ Src(a) = Src(b)
        /\ ran[a].pos > 0 /\ ran[b].pos = 0
        /\ Quiet(a) /\ Quiet(b)
        /\ ran[a].res = 1 /\ ran[b].res = 1

\* C3: the pairs queued on a pending promise are invoked at settlement in
\* the order they were queued: when a handler of a later pair starts, the
\* handler of every earlier pair has started and has returned.
C3_QueueOrder ==
    \A a, b \in AllPairs :
        (Src(a) = Src(b) /\ 0 < ran[a].pos /\ ran[a].pos < ran[b].pos
            /\ Begun(b))
        => (Begun(a) /\ ~Running(a))

\* two pairs were queued on one promise and the second is being invoked
C3_Witness ==
    \E a, b \in AllPairs :
        /\ Src(a) = Src(b) /\ 0 < ran[a].pos /\ ran[a].pos < ran[b].pos
        /\ Running(b)

\* C4: q = p.then(f), f returning a plain value: q resolves with f(v) when p
\* resolves with v; q rejects with e, f not invoked, when p rejects with e;
\* q is pending as long as p is (seen when no call holds the lock of p).
\* The promise q is settled by the chain only.
C4_ThenMapsValue ==
    \A q \in Pairs({"then1"}) :
        LET p == Src(q) IN
        /\ (Status(q) = "resolved") =>
                /\ Status(p) = "resolved"
                /\ states[q].data_ = UserF(states[p].data_)
        /\ (Status(q) = "rejected" /\ ~ran[q].raised) =>
                /\ Status(p) = "rejected"
                /\ states[q].exception_ = states[p].exception_
        /\ (Status(p) = "rejected") => ran[q].res = 0
        /\ (Status(p) = "pending") => Status(q) = "pending"
        /\ (Quiet(q) /\ Status(p) = "resolved" /\ ~ran[q].raised) =>
                Status(q) = "resolved"
        /\ (Quiet(q) /\ Status(p) = "rejected") => Status(q) = "rejected"

\* a two-step chain p.then(f).then(f) has resolved, and a q has rejected
\* with the error of its source
C4_Witness ==
    \E q, r \in Pairs({"then1"}) :
        /\ Src(r) = q /\ Src(q) \in Roots
        /\ Status(r) = "resolved"
        /\ states[r].data_ = UserF(UserF(states[Src(q)].data_))

\* no exception left a public call, and std::terminate was not called
NothingEscaped ==
    \A c \in CallIds : calls[c].exc = Null /\ ~calls[c].terminated

\* C5: when the f of q = p.then(f) raises, q is rejected with exactly the
\* raised condition (with what on_reject raises, if that raises too), and
\* nothing is raised out of the resolve or then call that invoked f.
C5_RaiseRejectsNext ==
    /\ NothingEscaped
    /\ \A q \in Pairs({"then1", "then2"}) :
        ran[q].raised =>
            /\ Status(q) # "resolved"
            /\ (Status(q) = "rejected" /\ ~ran[q].raised2) =>
                    states[q].exception_ = Exc("x", q)
            /\ ~Running(q) => Status(q) = "rejected"

\* f raised inside a resolve call and inside a then call on a resolved
\* promise; both calls returned
C5_Witness ==
    \E a, b \in Pairs({"then1"}) :
        /\ ran[a].raised /\ ran[a].pos > 0
        /\ ran[b].raised /\ ran[b].pos = 0
        /\ states[a].exception_ = Exc("x", a)
        /\ states[b].exception_ = Exc("x", b)
        /\ \A c \in CallIds : calls[c].done

\* C6: q = p.then(on_resolve, on_reject), p rejected with e: on_reject is
\* invoked with e; q is rejected with e if on_reject returns and with what
\* on_reject raises otherwise; q is never resolved.
C6_RejectObserved ==
    \A q \in Pairs({"then2"}) :
        LET p == Src(q) IN
        (Status(p) = "rejected") =>
            /\ Status(q) # "resolved"
            /\ ran[q].res = 0
            /\ ran[q].rej = 1 => ran[q].reje = states[p].exception_
            /\ (Status(q) = "rejected") =>
                    /\ ran[q].rej = 1
                    /\ states[q].exception_ =
                            IF ran[q].raised2 THEN Exc("x2", q)
                                              ELSE states[p].exception_
            /\ Quiet(q) => Status(q) = "rejected"

\* an on_reject returned and an on_reject raised
C6_Witness ==
    \E a, b \in Pairs({"then2"}) :
        /\ Status(Src(a)) = "rejected" /\ Status(Src(b)) = "rejected"
        /\ Status(a) = "rejected" /\ ~ran[a].raised2
        /\ Status(b) = "rejected" /\ ran[b].raised2

\* C7: q = p.fail(handler): p resolved with v: handler is not invoked and q
\* resolves with v; p rejected with e: handler is invoked exactly once with
\* e and q is rejected, with e when handler returns.
C7_FailObserves ==
    \A q \in Pairs({"fail"}) :
        LET p == Src(q) IN
        /\ ran[q].rej <= 1
        /\ (Status(p) # "rejected") => ran[q].rej = 0
        /\ (Status(p) = "resolved") =>
                /\ Status(q) # "rejected"
                /\ Status(q) = "resolved" => states[q].data_ = states[p].data_
                /\ Quiet(q) => Status(q) = "resolved"
        /\ (Status(p) = "rejected") =>
                /\ Status(q) # "resolved"
                /\ ran[q].rej = 1 => ran[q].reje = states[p].exception_
                /\ (Status(q) = "rejected") =>
                        /\ ran[q].rej = 1
                        /\ ~ran[q].raised2 =>
                                states[q].exception_ = states[p].exception_
                /\ Quiet(q) => Status(q) = "rejected"

\* a fail on a resolved promise and a fail on a rejected one have settled
C7_Witness ==
    \E b \in Pairs({"fail"}) :
        /\ Status(Src(b)) = "rejected" /\ Status(b) = "rejected"
        /\ ran[b].rej = 1 /\ ~ran[b].raised2 /\ ran[b].res = 0
        /\ states[b].exception_ = states[Src(b)].exception_

\* the public call that constructed q has returned
Made(q) == \E c \in CallIds : calls[c].q = q /\ calls[c].done

\* the continuation of the flattening then that returned q, and the promise
\* it returns
Inner(q) == origin[q].f.b
FlatRan(q) == ran[q + 1]

\* nothing in flight on either side of q
FlatQuiet(q) ==
    /\ Made(q)
    /\ states[Src(q)].mutex_ = 0
    /\ states[Inner(q)].mutex_ = 0

\* C8: q = p.then(f), f returning the promise inner.  q stays pending while
\* p is pending, and after p resolved while inner is pending; q is resolved
\* only with inner's value, once p and inner are resolved and f was called
\* once with p's value; q is rejected only with p's error (f not called),
\* with inner's error, or with what f raised; once nothing is in flight q
\* has followed p's rejection or inner's outcome.
C8_Flattening ==
    \A q \in Pairs({"then_flat"}) :
        LET p == Src(q)
            inner == Inner(q)
            f == FlatRan(q)
        IN
        /\ Status(p) = "pending" => Status(q) = "pending" /\ f.res = 0
        /\ Status(p) = "rejected" => f.res = 0
        /\ f.res <= 1
        /\ (Status(p) = "resolved" /\ Status(inner) = "pending" /\ ~f.raised)
                => Status(q) = "pending"
        /\ Status(q) = "resolved" =>
                /\ Status(p) = "resolved" /\ Status(inner) = "resolved"
                /\ f.res = 1 /\ f.resv = states[p].data_ /\ ~f.raised
                /\ states[q].data_ = states[inner].data_
        /\ Status(q) = "rejected" =>
                \/ /\ Status(p) = "rejected"
                   /\ states[q].exception_ = states[p].exception_
                \/ /\ Status(p) = "resolved" /\ f.res = 1 /\ ~f.raised
                   /\ Status(inner) = "rejected"
                   /\ states[q].exception_ = states[inner].exception_
                \/ /\ Status(p) = "resolved" /\ f.res = 1 /\ f.raised
                   /\ states[q].exception_ = Exc("x", q)
        /\ FlatQuiet(q) =>
                /\ Status(p) = "rejected" => Status(q) = "rejected"
                /\ (Status(p) = "resolved" /\ ~f.raised
                        /\ Status(inner) # "pending")
                        => Status(q) = Status(inner)

\* q resolved with the value of an inner promise that was resolved by a
\* call made after the call that resolved p
C8_Witness ==
    \E q \in Pairs({"then_flat"}) :
        /\ Status(q) = "resolved"
        /\ states[q].data_ = states[Inner(q)].data_
        /\ states[Inner(q)].data_[1] > states[Src(q)].data_[1]
        /\ FlatRan(q).res = 1

\* the promises make_all_promise returned and what they aggregate
Aggregates == Pairs({"make_all"})
Inputs(r) == contexts[r].inputs

\* nothing in flight on the inputs of r
AllQuiet(r) ==
    /\ Made(r)
    /\ \A i \in DOMAIN Inputs(r) : states[Inputs(r)[i]].mutex_ = 0

\* C9: r = make_all_promise(inputs).  r is resolved only when every input
\* is resolved, with the inputs' values in the order of the inputs; the
\* resolver is called at most once; once every input is resolved and nothing
\* is in flight r is resolved.
C9_AllResolved ==
    \A r \in Aggregates :
        LET ins == Inputs(r)
            all == \A i \in DOMAIN ins : Status(ins[i]) = "resolved"
        IN
        /\ Status(r) = "resolved" =>
                /\ all
                /\ states[r].data_ =
                        [i \in DOMAIN ins |-> states[ins[i]].data_[1]]
        /\ contexts[r].moves <= 1
        /\ contexts[r].counter <= Len(ins)
        /\ (AllQuiet(r) /\ all) =>
                /\ Status(r) = "resolved"
                /\ ins # <<>> => contexts[r].moves = 1

\* the aggregate of p1, p2 resolved with <<v1, v2>>, p2 resolved by the
\* earlier call
C9_Witness ==
    \E r \in Aggregates :
        /\ Inputs(r) = <<1, 2>>
        /\ Status(r) = "resolved"
        /\ states[r].data_ = <<states[1].data_[1], states[2].data_[1]>>
        /\ states[2].data_[1] < states[1].data_[1]

\* a rejected aggregate carries the error of a rejected input; no aggregate
\* with a rejected input is resolved; once an input is rejected and nothing
\* is in flight the aggregate is rejected
C10_Rejected ==
    \A r \in Aggregates :
        LET ins == Inputs(r)
            any == \E i \in DOMAIN ins : Status(ins[i]) = "rejected"
        IN
        /\ Status(r) = "rejected" =>
                \E i \in DOMAIN ins :
                    /\ Status(ins[i]) = "rejected"
                    /\ states[r].exception_ = states[ins[i]].exception_
        /\ any => Status(r) # "resolved"
        /\ (AllQuiet(r) /\ any) => Status(r) = "rejected"

\* a rejected aggregate stays rejected with the same error
C10_Stable ==
    \A r \in Aggregates :
        Status(r) = "rejected" =>
            /\ states'[r].status_ = "rejected"
            /\ states'[r].exception_ = states[r].exception_

\* C10: r = make_all_promise(inputs).  As soon as an input is rejected r is
\* rejected with the error of the first rejection forwarded to it and is
\* never resolved; the inputs that settle later leave r's outcome unchanged.
C10_AllRejects == []C10_Rejected /\ [][C10_Stable]_vars

\* both inputs rejected: the aggregate carries the error of one of them,
\* the other rejection changed nothing
C10_Witness ==
    \E r \in Aggregates :
        /\ Inputs(r) = <<1, 2>>
        /\ Status(1) = "rejected" /\ Status(2) = "rejected"
        /\ Status(r) = "rejected"
        /\ AllQuiet(r)
        /\ \E i \in {1, 2} : states[r].exception_ = states[i].exception_
        /\ ran[r + 2].rej = 1 /\ ran[r + 4].rej = 1

\* the promises make_any_promise returned and what they race
Races == Pairs({"make_any"})
Raced(r) == origin[r].f.b

\* p and q have the same outcome
SameOutcome(p, q) ==
    /\ Status(p) = Status(q)
    /\ states[p].data_ = states[q].data_
    /\ states[p].exception_ = states[q].exception_

\* nothing in flight on the inputs of r
AnyQuiet(r) ==
    /\ Made(r)
    /\ \A i \in DOMAIN Raced(r) : states[Raced(r)[i]].mutex_ = 0

\* C11, read strictly: a settled race has the outcome of the input that was
\* settled first.
C11_FirstSettledWins ==
    \A r \in Races :
        Status(r) # "pending" =>
            \E i \in DOMAIN Raced(r) :
                /\ states[Raced(r)[i]].at > 0
                /\ \A j \in DOMAIN Raced(r) :
                        states[Raced(r)[j]].at > 0
                            => states[Raced(r)[i]].at <= states[Raced(r)[j]].at
                /\ SameOutcome(r, Raced(r)[i])

\* C11: r = make_any_promise(inputs), inputs not empty.  A settled r has the
\* outcome (status, value, error) of an input that was settled before r was;
\* so of the first input to settle when r is settled before a second input
\* is.  Once an input is settled and nothing is in flight, r is settled.
C11_SettledInputWins ==
    \A r \in Races :
        /\ Status(r) # "pending" =>
                \E i \in DOMAIN Raced(r) :
                    /\ 0 < states[Raced(r)[i]].at
                    /\ states[Raced(r)[i]].at < states[r].at
                    /\ SameOutcome(r, Raced(r)[i])
        /\ (AnyQuiet(r) /\ \E i \in DOMAIN Raced(r) :
                                Status(Raced(r)[i]) # "pending")
                => Status(r) # "pending"

\* the race of p1, p2 has the outcome of p2, settled first and before the
\* race was; p1 was settled later, with another outcome
C11_Witness ==
    \E r \in Races :
        /\ Raced(r) = <<1, 2>>
        /\ 0 < states[2].at /\ states[2].at < states[r].at
        /\ states[r].at < states[1].at
        /\ SameOutcome(r, 2) /\ ~SameOutcome(r, 1)
        /\ AnyQuiet(r)

\* the calls of make_any_promise on an empty collection
EmptyAny == {c \in CallIds : calls[c].op = "make_any" /\ calls[c].v = <<>>}

\* the call has thrown the usage fault and has returned no promise
C12_Faulted ==
    \A c \in EmptyAny :
        calls[c].exc = logic_error /\ calls[c].done /\ calls[c].q = 0

\* the step of such a call constructs no promise and changes none
C12_NoChange ==
    (Len(calls') > Len(calls) /\ calls'[Len(calls')].op = "make_any"
            /\ calls'[Len(calls')].v = <<>>)
        => /\ states' = states /\ origin' = origin /\ contexts' = contexts
           /\ ran' = ran /\ agenda' = agenda

\* C12: make_any_promise on an empty collection throws std::logic_error at
\* the call: no promise is returned, no promise is constructed or changed.
C12_EmptyAnyFaults == []C12_Faulted /\ [][C12_NoChange]_vars

\* the call on the empty collection has been made, after a race was started
C12_Witness ==
    /\ \E c \in EmptyAny : calls[c].exc = logic_error
    /\ Races # {}

\* the public call that attached the pair n
MadeBy(n) == CHOOSE c \in CallIds : calls[c].q = n

\* a handler of the pair n is about to be invoked
Scheduled(n) ==
    \E t \in Threads : \E i \in DOMAIN agenda[t] :
        agenda[t][i].op \in {"resolve_h", "reject_h"} /\ agenda[t][i].h.n = n

\* C13: a pair attached to a settled promise is never queued; its handler is
\* invoked inside the then / fail call that attached it (so on the attaching
\* thread), and when that call has returned the handler has completed and
\* the promise the call returned is settled.
C13_SynchronousAttach ==
    \A n \in AllPairs :
        /\ \A i \in DOMAIN states[Src(n)].handlers_ :
                states[Src(n)].handlers_[i].n = n => ran[n].pos > 0
        /\ (Begun(n) /\ ran[n].pos = 0) => ran[n].call = MadeBy(n)
        /\ (Made(n) /\ ran[n].pos = 0) =>
                /\ Begun(n) /\ ~Running(n) /\ ~Scheduled(n)
                /\ ran[n].call = MadeBy(n)
                /\ Status(n) # "pending"

\* a then on a resolved promise has returned: the handler ran inside the
\* call and the returned promise is resolved
C13_Witness ==
    \E n \in AllPairs :
        /\ Made(n) /\ ran[n].pos = 0
        /\ ran[n].res = 1 /\ ran[n].call = MadeBy(n)
        /\ Status(n) = "resolved"

\* C15: while the source of a pair is pending no handler of the pair has
\* been invoked or is about to be, and the promise returned by then / fail
\* is pending.
C15_NoRunWhilePending ==
    \A n \in AllPairs :
        Status(Src(n)) = "pending" =>
            /\ ~Begun(n) /\ ~Scheduled(n) /\ ~Running(n)
            /\ Status(n) = "pending"

\* three calls have chained on a promise nobody settles: all returned,
\* nothing ran, everything is pending
C15_Witness ==
    /\ \A t \in Threads : agenda[t] = <<>>
    /\ Cardinality(AllPairs) = MaxOps
    /\ \A n \in AllPairs : Made(n) /\ ~Begun(n) /\ Status(n) = "pending"
    /\ \E n \in AllPairs : Src(n) \in AllPairs

\* the invariant of a state: a pending state holds nothing, a resolved one
\* holds a value and no error, a rejected one an error and no value; the
\* assertion of storage::set has not failed
C16_StateInv ==
    \A p \in Pids :
        LET s == states[p] IN
        /\ ~s.asserted
        /\ s.status_ \in {"pending", "resolved", "rejected"}
        /\ s.status_ = "pending" =>
                ~s.initialized_ /\ s.data_ = Unit /\ s.exception_ = Null
        /\ s.status_ = "resolved" =>
                (s.void \/ s.initialized_) /\ s.exception_ = Null
        /\ s.status_ = "rejected" =>
                ~s.initialized_ /\ s.exception_ # Null
        /\ ~s.void => (s.initialized_ <=> s.status_ = "resolved")

\* a step leaves a settled state as it is, and writes the value / the error
\* only together with the transition out of pending
C16_Monotone ==
    \A p \in Pids :
        LET s == states[p]
            s1 == states'[p]
        IN
        /\ s.status_ # "pending" =>
                /\ s1.status_ = s.status_
                /\ s1.initialized_ = s.initialized_ /\ s1.data_ = s.data_
                /\ s1.exception_ = s.exception_
        /\ (s.status_ = "pending" /\ s1.status_ = "pending") =>
                /\ s1.initialized_ = s.initialized_ /\ s1.data_ = s.data_
                /\ s1.exception_ = s.exception_

\* C16: the status only moves from pending to resolved or to rejected and
\* never leaves these; the storage is written at most once and is
\* initialized iff the status is resolved; the error is written at most once
\* and only on the transition to rejected; assert(!initialized_) holds.
C16_StateInvariant == []C16_StateInv /\ [][C16_Monotone]_vars

\* a promise that was resolved and then the target of two more settle
\* calls, all returned
C16_Witness ==
    \E p \in Roots :
        /\ Status(p) = "resolved" /\ states[p].initialized_
        /\ Cardinality({c \in SettleCalls(p) : calls[c].done}) = MaxOps
        /\ \E c \in SettleCalls(p) : calls[c].op = "reject"

\* whenever the lock is free a settled state has an empty queue
C17_Drained ==
    \A p \in Pids :
        (states[p].mutex_ = 0 /\ states[p].status_ # "pending")
            => states[p].handlers_ = <<>>

\* no step adds to the queue of a settled state
C17_NoEnqueue ==
    \A p \in Pids :
        states[p].status_ # "pending"
            => Len(states'[p].handlers_) <= Len(states[p].handlers_)

\* C17: whenever the lock of a state is free, a settled state has an empty
\* queue (the settle call that made the transition cleared it); an attach on
\* a settled state never enqueues.
C17_QueueInvariant == []C17_Drained /\ [][C17_NoEnqueue]_vars

\* a promise with a pair queued while it was pending and a pair attached
\* after it was settled: both served, the queue empty, the lock free
C17_Witness ==
    \E a, b \in AllPairs :
        /\ Src(a) = Src(b)
        /\ ran[a].pos > 0 /\ Begun(a)
        /\ ran[b].pos = 0 /\ Made(b)
        /\ states[Src(a)].mutex_ = 0
        /\ states[Src(a)].status_ = "rejected"
        /\ states[Src(a)].handlers_ = <<>>

\* C20: q = p.then(on_resolve, on_reject), p resolved, on_resolve raising x:
\* on_reject is invoked too, exactly once, with x; q is rejected with x when
\* on_reject returns and with what on_reject raises otherwise.
C20_RaiseInvokesReject ==
    \A n \in Pairs({"then2"}) :
        ran[n].raised =>
            /\ Status(Src(n)) = "resolved" /\ ran[n].res = 1
            /\ ran[n].rej <= 1
            /\ ran[n].rej = 1 => ran[n].reje = Exc("x", n)
            /\ ~Running(n) =>
                /\ ran[n].rej = 1
                /\ Status(n) = "rejected"
                /\ states[n].exception_ =
                        IF ran[n].raised2 THEN Exc("x2", n) ELSE Exc("x", n)

\* on_resolve raised, on_reject was invoked with that and raised in turn:
\* q carries what on_reject raised
C20_Witness ==
    \E n \in Pairs({"then2"}) :
        /\ ran[n].raised /\ ran[n].raised2 /\ ran[n].rej = 1
        /\ ran[n].reje = Exc("x", n)
        /\ ~Running(n)
        /\ states[n].exception_ = Exc("x2", n)

\* the promises make_promise returned, and what their initiator does
Bridged == Pairs({"make_promise"})
Does(q) == origin[q].f.k

\* C14: make_promise invokes the initiator once, inside the call, with
\* callables bound to the promise it returns: what the initiator passed to
\* them is the outcome of that promise when the call returns.  When the
\* initiator raises before calling either, the promise is rejected with the
\* raised condition.  No raise of the initiator leaves make_promise.
C14_InitiatorBridged ==
    /\ \A c \in CallIds :
            calls[c].op = "make_promise"
                => calls[c].exc = Null /\ ~calls[c].terminated
    /\ \A q \in Bridged :
        /\ ran[q].res <= 1
        /\ ran[q].res = 1 => ran[q].call = MadeBy(q)
        /\ Made(q) =>
            /\ ran[q].res = 1
            /\ Does(q) = "raises" =>
                    /\ Status(q) = "rejected"
                    /\ states[q].exception_ = Exc("init", q)
            /\ Does(q) \in {"resolves", "resolves_raises"} =>
                    /\ Status(q) = "resolved"
                    /\ states[q].data_ = Scalar(MadeBy(q))
            /\ Does(q) = "rejects" =>
                    /\ Status(q) = "rejected"
                    /\ states[q].exception_ = Exc("error", MadeBy(q))
            /\ Does(q) = "nothing" => Status(q) = "pending"

\* make_promise has returned a promise rejected with what its initiator
\* raised, and a continuation chained on it was passed over
C14_Witness ==
    \E q \in Bridged : \E n \in Pairs({"then1"}) :
        /\ Does(q) = "raises" /\ Made(q)
        /\ states[q].exception_ = Exc("init", q)
        /\ Src(n) = q /\ Made(n) /\ ran[n].res = 0
        /\ states[n].exception_ = Exc("init", q)

\* thread t waits for the mutex of a promise
IsWaiting(t) == agenda[t] # <<>> /\ Head(agenda[t]).op = "waiting"

\* thread t is about to lock a mutex it owns
SelfLock(t) ==
    /\ agenda[t] # <<>>
    /\ Head(agenda[t]).op \in {"resolve", "reject", "attach"}
    /\ states[Head(agenda[t]).p].mutex_ = t

\* the call at the top of t's stack was made by a continuation attached to
\* the promise the call is on
Reentered(t) ==
    /\ Len(agenda[t]) >= 3
    /\ Head(agenda[t]).op \in {"resolve", "reject", "attach"}
    /\ agenda[t][3].op = "try_h"
    /\ agenda[t][3].h.resolve.k = "reenter"
    /\ agenda[t][3].h.resolve.a = Head(agenda[t]).p

\* every handler is invoked by a thread that holds the lock of the promise
\* the handler is attached to; so a call a continuation makes on that
\* promise finds the lock held by its own thread
C18_UnderLock ==
    \A t \in Threads :
        /\ \A i \in DOMAIN agenda[t] :
            (agenda[t][i].op \in {"resolve_h", "reject_h", "try_h", "ret_h"}
                    /\ agenda[t][i].h.n \in AllPairs)
                => states[Src(agenda[t][i].h.n)].mutex_ = t
        /\ Reentered(t) => SelfLock(t)

\* a thread about to lock its own mutex does not get it: it starts to wait
\* or lock() throws; a waiting thread waits forever, the lock held
C18_Stuck ==
    \A t \in Threads :
        /\ (SelfLock(t) /\ agenda'[t] # agenda[t]) =>
                \/ agenda'[t] # <<>> /\ Head(agenda'[t]).op = "waiting"
                \/ /\ agenda'[t] # <<>>
                   /\ Head(agenda'[t]).e = system_error(Head(agenda[t]).p)
                \/ calls'[cur[t]].exc = system_error(Head(agenda[t]).p)
                \/ calls'[cur[t]].terminated
        /\ IsWaiting(t) =>
                /\ agenda'[t] = agenda[t]
                /\ states'[Head(agenda[t]).p].mutex_ = t

\* C18: handlers are invoked with the lock of their promise held, from
\* resolve / reject and from attach on a settled promise; a continuation
\* that calls resolve, reject, then or fail on the promise it is attached to
\* locks a mutex its thread owns, and a thread that waits there waits
\* forever.
C18_ReentrancyDeadlock == []C18_UnderLock /\ [][C18_Stuck]_vars

\* a thread waits on its own lock inside then on the promise its
\* continuation is attached to, the other thread waits for that lock
C18_Witness ==
    \E t, u \in Threads :
        /\ t # u
        /\ IsWaiting(t)
        /\ agenda[t][2].op = "attach"
        /\ states[agenda[t][2].p].mutex_ = t
        /\ agenda[t][4].op = "try_h" /\ agenda[t][4].h.resolve.k = "reenter"
        /\ agenda[u] # <<>> /\ Head(agenda[u]).op \in {"resolve", "reject", "attach"}
        /\ Head(agenda[u]).p = agenda[t][2].p

\* the promises then_any returned and the collection their on_resolve
\* returns
ThenAnys == Pairs({"then_any"})
Collection(q) == origin[q].f.b

\* C19: q = p.then_any(f), f returning an empty collection: the
\* std::logic_error make_any_promise throws inside the continuation is
\* caught; once p is resolved and nothing is in flight q is rejected with
\* it; q is rejected with nothing but it or p's error and is never
\* resolved; nothing is raised out of the resolve or then_any call that
\* invoked the continuation.
C19_ThenAnyEmpty ==
    /\ NothingEscaped
    /\ \A q \in ThenAnys :
        Collection(q) = <<>> =>
            /\ Status(q) # "resolved"
            /\ FlatRan(q).res <= 1
            /\ FlatRan(q).res = 1 =>
                    FlatRan(q).raised /\ Status(Src(q)) = "resolved"
            /\ Status(q) = "rejected" =>
                    states[q].exception_ =
                        IF Status(Src(q)) = "rejected"
                        THEN states[Src(q)].exception_
                        ELSE logic_error
            /\ (Made(q) /\ states[Src(q)].mutex_ = 0
                    /\ Status(Src(q)) = "resolved") =>
                    /\ FlatRan(q).res = 1
                    /\ Status(q) = "rejected"
                    /\ states[q].exception_ = logic_error

\* two then_any with an empty collection, one attached before and one
\* after p was resolved: both returned promises carry the usage fault and
\* all calls returned normally
C19_Witness ==
    \E a, b \in ThenAnys :
        /\ a # b
        /\ Collection(a) = <<>> /\ Collection(b) = <<>>
        /\ ran[a + 1].pos > 0 /\ ran[b + 1].pos = 0
        /\ states[a].exception_ = logic_error
        /\ states[b].exception_ = logic_error
        /\ \A c \in CallIds : calls[c].done /\ calls[c].exc = Null

(* ------------------------------- C22 --------------------------------- *)

\* the threads between the store and the increment of apply_result on r
InCount(r) ==
    {t \in Threads : /\ agenda[t] # <<>>
                     /\ Head(agenda[t]).op = "count"
                     /\ Head(agenda[t]).p = r}

\* the positions of r whose continuation was invoked
Stored(r) == {i \in DOMAIN Inputs(r) : ran[r + 2 * i - 1].res > 0}

\* C22: in the shared context of make_all over N inputs the continuation of a
\* position runs at most once and only for a resolved input, every store is
\* followed by exactly one increment of the counter, which never exceeds N;
\* the buffer is moved to the resolver at most once, exactly when the counter
\* has reached N, with all N positions stored, and no store comes after the
\* move; in every interleaving of the threads that resolve the inputs.
C22_SharedContext ==
    \A r \in Aggregates :
        LET c == contexts[r]
            N == Len(Inputs(r))
        IN
        /\ \A i \in 1..N :
                /\ ran[r + 2 * i - 1].res <= 1
                /\ ran[r + 2 * i - 1].res = 1 =>
                        Status(Inputs(r)[i]) = "resolved"
        /\ c.written = Stored(r)
        /\ c.counter + Cardinality(InCount(r)) = Cardinality(Stored(r))
        /\ c.counter <= N
        /\ c.moves <= 1
        /\ N > 0 => (c.moves = 1 <=> c.counter = N)
        /\ c.moves = 1 => c.written = 1..N
        /\ (N > 0 /\ Status(r) = "resolved") => c.moves = 1
        /\ ~c.late

\* the buffer of an aggregate of p1, p2 moved out, the two positions stored
\* on different settle calls
C22_Witness ==
    \E r \in Aggregates :
        /\ Inputs(r) = <<1, 2>>
        /\ contexts[r].moves = 1
        /\ contexts[r].counter = 2
        /\ ran[r + 1].call # ran[r + 3].call
        /\ Status(r) = "resolved"

\* both threads between their store and their increment
C22_BothCounting == \E r \in Aggregates : InCount(r) = Threads

\* the same promise twice in the input, the buffer moved out
C22_Twice ==
    \E r \in Aggregates : Inputs(r) = <<1, 1>> /\ contexts[r].moves = 1

(* ------------------------------- C21 --------------------------------- *)

\* the positions of the inputs of r that were settled when the combinator
\* that made r was called, and those of them that are rejected
AtCall(r) == origin[r].f.a
RejectedAtCall(r) ==
    {i \in AtCall(r) : Status(origin[r].f.b[i]) = "rejected"}
Lowest(S) == CHOOSE i \in S : \A j \in S : i <= j

\* the continuation that the combinator attached to input i of r was invoked
\* by its attach, without having been queued
FiredAtAttach(r, i) ==
    /\ Begun(r + 2 * i - 1)
    /\ ran[r + 2 * i - 1].pos = 0

\* C21 as stated: the output of make_any has the outcome of the input of the
\* lowest position among those settled when make_any was called, and the
\* aggregate of make_all has the error of the input of the lowest position
\* among those rejected when make_all was called.
C21_LowestAlreadySettled ==
    /\ \A r \in Races :
            (Made(r) /\ AtCall(r) # {}) =>
                SameOutcome(r, Raced(r)[Lowest(AtCall(r))])
    /\ \A r \in Aggregates :
            (Made(r) /\ RejectedAtCall(r) # {}) =>
                /\ Status(r) = "rejected"
                /\ states[r].exception_ =
                    states[Inputs(r)[Lowest(RejectedAtCall(r))]].exception_

\* C21: once a combinator called with some input already settled
\* (make_all: already rejected) has returned, the continuations it attached
\* to those inputs were invoked by their attach, and its result has the
\* outcome (make_all: the error) of the lowest such input, or of an input
\* before it that was pending at the call and was settled (make_all:
\* rejected) by another thread while the combinator ran; whatever the order
\* in which the inputs were settled.
C21_LowestIndexWins ==
    /\ \A r \in Races :
            (Made(r) /\ AtCall(r) # {}) =>
                /\ \A i \in AtCall(r) : FiredAtAttach(r, i)
                /\ \E i \in 1..Lowest(AtCall(r)) :
                        /\ SameOutcome(r, Raced(r)[i])
                        /\ Status(r) # "pending"
                        /\ i \in AtCall(r) => i = Lowest(AtCall(r))
    /\ \A r \in Aggregates :
            (Made(r) /\ RejectedAtCall(r) # {}) =>
                /\ \A i \in AtCall(r) : FiredAtAttach(r, i)
                /\ Status(r) = "rejected"
                /\ \E i \in 1..Lowest(RejectedAtCall(r)) :
                        /\ Status(Inputs(r)[i]) = "rejected"
                        /\ states[r].exception_ =
                                states[Inputs(r)[i]].exception_
                        /\ i \in AtCall(r) => i = Lowest(RejectedAtCall(r))

\* p2 was rejected before p1 was, then make_all was called: the aggregate
\* carries the error of p1
C21_Witness ==
    \E r \in Aggregates :
        /\ Made(r)
        /\ AtCall(r) = {1, 2}
        /\ states[2].at < states[1].at
        /\ Status(1) = "rejected" /\ Status(2) = "rejected"
        /\ states[r].exception_ = states[1].exception_

\* p2 was resolved before p1 was, then make_any was called: the output has
\* the value of p1
C21_WitnessAny ==
    \E r \in Races :
        /\ Made(r)
        /\ AtCall(r) = {1, 2}
        /\ states[2].at < states[1].at
        /\ SameOutcome(r, 1)

(* ------------------------------- C23 --------------------------------- *)

AllSettled(r) == \A i \in DOMAIN Inputs(r) : Status(Inputs(r)[i]) # "pending"
AllResolved(r) ==
    \A i \in DOMAIN Inputs(r) : Status(Inputs(r)[i]) = "resolved"

\* input i of the race r is settled and the call that settled it returned
SettledAndReturned(r, i) ==
    /\ Status(Raced(r)[i]) # "pending"
    /\ \A c \in SettleCalls(Raced(r)[i]) : calls[c].ret => calls[c].done

\* a settled aggregate is resolved exactly when all its inputs are, and it is
\* settled when its inputs are and every call has returned; once make_any
\* has returned, an input is settled and its settle call has
\* returned, the output is settled
C23_Safety ==
    /\ \A r \in Aggregates :
            /\ Status(r) # "pending" =>
                    (Status(r) = "resolved" <=> AllResolved(r))
            /\ (AllSettled(r) /\ \A t \in Threads : cur[t] = 0) =>
                    Status(r) # "pending"
    /\ \A r \in Races :
            (Made(r) /\ \E i \in DOMAIN Raced(r) : SettledAndReturned(r, i))
                => Status(r) # "pending"

\* the aggregates of make_all whose inputs are all settled and the outputs
\* of make_any with a settled input that are still pending
OwedAll == {r \in Aggregates : AllSettled(r) /\ Status(r) = "pending"}
OwedAny ==
    {r \in Races : /\ \E i \in DOMAIN Raced(r) : Status(Raced(r)[i]) # "pending"
                   /\ Status(r) = "pending"}

\* C23: with threads that keep running inside their calls, whenever all
\* inputs of an aggregate of make_all are settled, by whatever threads and
\* in whatever order, the aggregate gets settled, resolved if and only if
\* all inputs are resolved and rejected otherwise; and whenever an input of
\* make_any is settled its output gets settled, at the latest when make_any
\* and the settle call have returned.  (A settled input stays settled, so a
\* result that is owed is still owed until it is settled: every owed result
\* is settled by the time no result is owed.)
C23_CombinatorsSettle ==
    /\ []C23_Safety
    /\ (OwedAll # {}) ~> (OwedAll = {})
    /\ (OwedAny # {}) ~> (OwedAny = {})

\* an aggregate rejected and an output of make_any settled, the two inputs
\* settled by different calls, one resolved and one rejected
C23_Witness ==
    \E r \in Aggregates :
        /\ AllSettled(r) /\ ~AllResolved(r)
        /\ Status(1) # Status(2)
        /\ Status(r) = "rejected"
        /\ AtCall(r) = {}

(* ------------------------------- C24 --------------------------------- *)

\* the pair n is p, or was queued on p, or on a pair queued on p, and so on
RECURSIVE QueuedBelow(_, _)
QueuedBelow(n, p) ==
    \/ n = p
    \/ /\ n \in AllPairs
       /\ ran[n].pos > 0
       /\ QueuedBelow(Src(n), p)

\* the continuation of the pair n has run, all that it set off included, and
\* the promise of n is settled
Completed(n) ==
    /\ Begun(n)
    /\ ~Running(n)
    /\ ~Scheduled(n)
    /\ Status(n) # "pending"

\* C24: when a resolve or reject call that made the transition has returned,
\* every continuation queued on its promise, and on the promises of those
\* continuations, and so on, has been invoked on that very call and has
\* completed, and the promises then and fail returned for them are settled;
\* and when a continuation queued on a promise is begun, every continuation
\* queued before it on that promise has completed together with the whole
\* chain queued below it.
C24_DepthFirst ==
    /\ \A c \in CallIds :
            (calls[c].op \in {"resolve", "reject"} /\ calls[c].ret
                /\ calls[c].done)
            => \A n \in AllPairs :
                    QueuedBelow(n, calls[c].p) =>
                        (Completed(n) /\ ran[n].call = c)
    /\ \A a, b \in AllPairs :
            (Src(a) = Src(b) /\ 0 < ran[a].pos /\ ran[a].pos < ran[b].pos
                /\ Begun(b))
            => \A d \in AllPairs : QueuedBelow(d, a) => Completed(d)

\* q and then r were queued on p and s on q; r is being invoked, q and s have
\* completed
C24_Witness ==
    \E a, b, d \in AllPairs :
        /\ Src(a) = Src(b) /\ 0 < ran[a].pos /\ ran[a].pos < ran[b].pos
        /\ Src(d) = a /\ ran[d].pos > 0
        /\ Running(b)
        /\ Completed(a) /\ Completed(d)

\* the call that resolved p has returned with a chain of two queued below p
C24_WitnessReturn ==
    \E c \in CallIds : \E n, d \in AllPairs :
        /\ calls[c].op = "resolve" /\ calls[c].ret /\ calls[c].done
        /\ Src(n) = calls[c].p /\ ran[n].pos > 0
        /\ Src(d) = n /\ ran[d].pos > 0
        /\ ran[d].call = c

(* ------------------------------- C25 --------------------------------- *)

\* thread t is in std::lock_guard of resolve, reject or attach for a mutex
\* that thread u holds
WaitsFor(t, u) ==
    /\ agenda[t] # <<>>
    /\ Head(agenda[t]).op \in {"resolve", "reject", "attach"}
    /\ states[Head(agenda[t]).p].mutex_ = u

\* every thread waits for a mutex that another thread holds
Deadlocked ==
    \E t, u \in Threads : t # u /\ WaitsFor(t, u) /\ WaitsFor(u, t)

\* no continuation calls anything itself: the continuations of the user
\* only return a value or a promise, or raise
NoReentrantContinuation ==
    \A n \in Pids : origin[n].f.k # "reenter" /\ origin[n].r.k # "reenter"

\* C25: with promises chained by flattening then only, whose continuations
\* call nothing themselves, the threads that settle the promises and chain
\* on them never come to wait for each other's mutex.
C25_DeadlockFree == NoReentrantContinuation => ~Deadlocked

\* q1 = p1.then(f) with f returning p2 and q2 = p2.then(g) with g returning
\* p1; one thread resolving p1 holds its mutex and waits in attach for that
\* of p2, the other resolving p2 holds that and waits for the mutex of p1
C25_Witness ==
    /\ Deadlocked
    /\ \E a, b \in Pairs({"then_flat"}) :
            /\ Src(a) = 1 /\ Inner(a) = 2
            /\ Src(b) = 2 /\ Inner(b) = 1
    /\ \A c \in CallIds : calls[c].op \in {"then_flat", "resolve"}

=========================================================================
